---- MODULE Spec2Model ----
(***************************************************************************)
(* State-machine model of scripts/extract_species.py: the command-line     *)
(* entry point main(), process_csv() and extract_species_from_text().      *)
(*                                                                         *)
(* Text is modelled as a sequence of one-character strings, so that        *)
(* str.strip, str.join and str.replace are computed, not assumed.  A file  *)
(* path is a sequence of path tokens ("/", ".", a name, an extension).     *)
(* A table cell is a record [t, s, n]: t is the cell's type ("nan" for a   *)
(* missing cell, "none" for None, "str", "num"), s its text, n its number. *)
(***************************************************************************)
EXTENDS Integers, Sequences, FiniteSets, TLC

(* ------------------------------ bounds --------------------------------- *)

\* Largest number of rows of an input table (specification Spec).
MaxRows == 2

\* Largest number of spans the recogniser returns for one text (Spec).
MaxSpans == 2

\* Largest number of rows of an input table (specification SpecTally).
MaxRowsTally == 4

(* ------------------------- sequences and text -------------------------- *)

Range(s) == {s[i] : i \in 1..Len(s)}

SeqsUpTo(S, n) == UNION {[1..k -> S] : k \in 0..n}

Min(a, b) == IF a <= b THEN a ELSE b

Whitespace == {" "}

RECURSIVE LStrip(_)
LStrip(s) ==
    IF s # <<>> /\ Head(s) \in Whitespace THEN LStrip(Tail(s)) ELSE s

RECURSIVE RStrip(_)
RStrip(s) ==
    IF s # <<>> /\ s[Len(s)] \in Whitespace
    THEN RStrip(SubSeq(s, 1, Len(s) - 1))
    ELSE s

\* str.strip()
Strip(s) == RStrip(LStrip(s))

\* sep.join(list)
RECURSIVE Join(_, _)
Join(list, sep) ==
    IF list = <<>> THEN <<>>
    ELSE IF Len(list) = 1 THEN list[1]
    ELSE list[1] \o sep \o Join(Tail(list), sep)

\* s.replace(old, new): every non-overlapping occurrence, left to right.
RECURSIVE Replace(_, _, _)
Replace(s, old, new) ==
    IF Len(s) < Len(old) THEN s
    ELSE IF SubSeq(s, 1, Len(old)) = old
         THEN new \o Replace(SubSeq(s, Len(old) + 1, Len(s)), old, new)
         ELSE <<Head(s)>> \o Replace(Tail(s), old, new)

(* ------------------------------ cells ---------------------------------- *)

NaN == [t |-> "nan", s |-> <<>>, n |-> 0]
None == [t |-> "none", s |-> <<>>, n |-> 0]
Str(s) == [t |-> "str", s |-> s, n |-> 0]
Num(n) == [t |-> "num", s |-> <<>>, n |-> n]

\* pd.isna(text)
IsNa(v) == v.t \in {"nan", "none"}

\* text.strip() exists only on a str; on a number it raises AttributeError.
HasStrip(v) == v.t = "str"

\* Variant of the guard that tests pd.isna(text) alone.
ShortCircuitNaOnly(v) == IsNa(v)

\* The guard of extract_species_from_text: pd.isna(text) or not text.strip()
ShortCircuit(v) == IsNa(v) \/ (HasStrip(v) /\ Strip(v.s) = <<>>)

(* ------------------------------ tables --------------------------------- *)

\* A DataFrame: its column names and its rows, each row a cell per column.
Frame(columns, data) == [columns |-> columns, data |-> data]

NoFrame == Frame(<<>>, <<>>)

ColIndex(columns, name) == CHOOSE i \in 1..Len(columns) : columns[i] = name

HasColumn(df, name) == name \in Range(df.columns)

\* row[name]
Cell(df, idx, name) == df.data[idx][ColIndex(df.columns, name)]

\* df[name] = v : overwrites the column when it exists, appends it otherwise.
SetColumn(df, name, v) ==
    IF HasColumn(df, name)
    THEN Frame(df.columns,
               [i \in 1..Len(df.data) |->
                   [df.data[i] EXCEPT ![ColIndex(df.columns, name)] = v]])
    ELSE Frame(Append(df.columns, name),
               [i \in 1..Len(df.data) |-> Append(df.data[i], v)])

\* df.at[idx, name] = v
SetAt(df, idx, name, v) ==
    Frame(df.columns,
          [df.data EXCEPT ![idx] =
              [df.data[idx] EXCEPT ![ColIndex(df.columns, name)] = v]])

(* ------------------------------ paths ---------------------------------- *)

NoPath == <<>>

DefaultOutput ==
    <<"data", "/", "output", "/", "results_with_species", ".", "csv">>

CsvExt == <<".", "csv">>

SummarySuffix == <<"_species_summary", ".", "csv">>

Cwd == <<".">>

Slashes(path) == {k \in 1..Len(path) : path[k] = "/"}

\* Path(p).parent
Parent(path) ==
    IF Slashes(path) = {} THEN Cwd
    ELSE SubSeq(path, 1, (CHOOSE k \in Slashes(path) :
                             \A j \in Slashes(path) : j <= k) - 1)

\* The directories mkdir(parents=True) makes sure exist for Path(p).parent.
Ancestors(path) == {SubSeq(path, 1, k - 1) : k \in Slashes(path)}

\* output_file.replace('.csv', '_species_summary.csv')
SummaryPath(output) == Replace(output, CsvExt, SummarySuffix)

(* --------------------------- the recogniser ----------------------------- *)

\* A span of doc.ents: its text and its label.
Span(text, label) == [text |-> text, label |-> label]

\* The labels extract_species_from_text keeps.
TaxonLabels == {"TAXON"}

\* The loop over doc.ents: the stripped text of every TAXON span, in order.
RECURSIVE Entities(_)
Entities(doc) ==
    IF doc = <<>> THEN <<>>
    ELSE (IF Head(doc).label \in TaxonLabels
          THEN <<Strip(Head(doc).text)>>
          ELSE <<>>) \o Entities(Tail(doc))

\* Variant of the return statement that returns the entities as collected,
\* repeats included.
UniqueListsNoDedup(entities) == {entities}

\* list(set(entities)): the set's iteration order depends on the string hash
\* seed of the run, so every ordering of the distinct entities can be returned.
UniqueLists(entities) ==
    LET S == Range(entities)
    IN  {f \in [1..Cardinality(S) -> S] : Range(f) = S}

\* '; '.join(species) if species else ''
JoinedSpecies(species) ==
    IF species # <<>> THEN Join(species, <<";", " ">>) ELSE <<>>

(* ------------------------------ the tally ------------------------------- *)

\* Counter(all_species): (species, count) entries in first-insertion order.
RECURSIVE Counter(_)
Counter(items) ==
    IF items = <<>> THEN <<>>
    ELSE LET prev == Counter(SubSeq(items, 1, Len(items) - 1))
             x == items[Len(items)]
         IN  IF \E i \in 1..Len(prev) : prev[i].species = x
             THEN [i \in 1..Len(prev) |->
                      IF prev[i].species = x
                      THEN [species |-> x, count |-> prev[i].count + 1]
                      ELSE prev[i]]
             ELSE Append(prev, [species |-> x, count |-> 1])

\* Counter.most_common(): sorted by count, largest first; the sort is stable,
\* so entries of equal count keep their insertion order.
MostCommon(counter) ==
    LET n == Len(counter)
        Rank(i) == 1 + Cardinality({j \in 1..n :
                        \/ counter[j].count > counter[i].count
                        \/ counter[j].count = counter[i].count /\ j < i})
    IN  [k \in 1..n |-> counter[CHOOSE i \in 1..n : Rank(i) = k]]

\* The number of species the console report lists: most_common(5).
TopN == 5

Take(s, n) == SubSeq(s, 1, Min(n, Len(s)))

\* The DataFrame of (species, mention_count) rows written as the summary.
SummaryFrame(counter) ==
    Frame(<<"species", "mention_count">>,
          [k \in 1..Len(counter) |->
              <<Str(MostCommon(counter)[k].species),
                Num(MostCommon(counter)[k].count)>>])

\* Variant of the summary guard that also holds for an empty tally.
HasSpeciesAlways(total_unique_species) == total_unique_species >= 0

\* if total_unique_species > 0
HasSpecies(total_unique_species) == total_unique_species > 0

\* Variant of the loop that stops one row early.
LoopDoneEarly(i, n) == i >= n

\* for idx, row in df.iterrows(): the loop ends after the last row.
LoopDone(i, n) == i > n

(* ------------------------------- state ---------------------------------- *)

VARIABLES
    pc,              \* the statement the run is at
    exit_code,       \* the process's exit status (-1 while running)
    input,           \* the file at args.input_csv
    text_column,     \* args.text_column
    output_file,     \* args.output, then the resolved output path
    recogniser,      \* which recogniser nlp is: what it can return for a text
    df,              \* the DataFrame of process_csv
    nlp,             \* whether the TaxoNERD model is loaded
    idx,             \* the row the loop is at (1-based)
    extracted,       \* the calls of extract_species_from_text: [row, species]
    all_species,     \* all_species
    species_counter, \* species_counter
    printed_top,     \* the "Most mentioned species" lines printed
    err,             \* the error message printed, if any
    model_calls,     \* the number of times nlp(...) was invoked
    dirs,            \* the directories the run created
    writes           \* the to_csv calls made: <<[path, content], ...>>

vars == <<pc, exit_code, input, text_column, output_file, recogniser, df, nlp, idx,
          extracted, all_species, species_counter, printed_top, err,
          model_calls, dirs, writes>>

NoErr == [kind |-> "none", message |-> <<>>]

(* ------------------------------- inputs --------------------------------- *)

MissingFile == [exists |-> FALSE, parsable |-> FALSE, table |-> NoFrame]
GarbageFile == [exists |-> TRUE, parsable |-> FALSE, table |-> NoFrame]
CsvFile(t) == [exists |-> TRUE, parsable |-> TRUE, table |-> t]

\* The cells a column of the given name holds in the input tables.
ColumnValues(c) ==
    CASE c = "abstract" -> {NaN, Str(<<" ">>), Str(<<"a">>), Num(7)}
      [] c = "year" -> {Num(1)}
      [] c = "species_count" -> {Num(7)}
      [] OTHER -> {Str(<<"x">>)}

AllCells ==
    UNION {ColumnValues(c) :
            c \in {"abstract", "title", "year", "species_count",
                   "extracted_species"}}

RowsOf(h) ==
    {r \in [1..Len(h) -> AllCells] : \A i \in 1..Len(h) : r[i] \in ColumnValues(h[i])}

\* read_csv gives a column one type: a column holding a string holds no number.
Typed(h, d) ==
    \A c \in 1..Len(h) :
        ~(\E i \in 1..Len(d) : d[i][c].t = "num") \/
        ~(\E i \in 1..Len(d) : d[i][c].t = "str")

Tables(headers, maxRows) ==
    UNION {{Frame(h, d) : d \in {e \in SeqsUpTo(RowsOf(h), maxRows) : Typed(h, e)}} :
            h \in headers}

Headers ==
    {<<"title", "year">>, <<"abstract">>, <<"abstract", "species_count">>,
     <<"extracted_species", "abstract">>}

TextColumns == {"abstract", "species_count", "extracted_species"}

OutputPaths ==
    {NoPath,
     <<"out", ".", "csv">>,
     <<"out", ".", "tsv">>,
     <<"run", ".", "csv", "/", "out", ".", "csv">>}

\* The spans of the recogniser "spans": a name, the name with a leading space,
\* a whitespace-only text, a text holding ';', and a span of another label.
Spans ==
    {Span(<<"A">>, "TAXON"), Span(<<" ", "A">>, "TAXON"), Span(<<" ">>, "TAXON"),
     Span(<<"A", ";", "B">>, "TAXON"), Span(<<"A">>, "OTHER")}

Docs == SeqsUpTo(Spans, MaxSpans)

A == <<"A">>
B == <<"B">>
C == <<"C">>

TallyDocs ==
    {<<>>,
     <<Span(A, "TAXON")>>,
     <<Span(A, "TAXON"), Span(B, "TAXON")>>,
     <<Span(B, "TAXON"), Span(C, "TAXON")>>,
     <<Span(A, "TAXON"), Span(A, "TAXON"), Span(B, "OTHER")>>}

\* doc.ents: the span sequences nlp(text) can return.
Documents(r) == IF r = "spans" THEN Docs ELSE TallyDocs

\* What extract_species_from_text can return once it has invoked the model.
Extractions(r) == UNION {UniqueLists(Entities(doc)) : doc \in Documents(r)}

InitWith(files, textColumns, outputs, recognisers) ==
    /\ pc = "main"
    /\ exit_code = -1
    /\ input \in files
    /\ text_column \in textColumns
    /\ output_file \in outputs
    /\ recogniser \in recognisers
    /\ df = NoFrame
    /\ nlp = FALSE
    /\ idx = 1
    /\ extracted = <<>>
    /\ all_species = <<>>
    /\ species_counter = <<>>
    /\ printed_top = <<>>
    /\ err = NoErr
    /\ model_calls = 0
    /\ dirs = {}
    /\ writes = <<>>

Init ==
    InitWith({MissingFile, GarbageFile}
                 \cup {CsvFile(t) : t \in Tables(Headers, MaxRows)},
             TextColumns, OutputPaths, {"spans"})

TallyTables ==
    {t \in Tables({<<"abstract">>, <<"title", "year">>}, MaxRowsTally) :
        \A i \in 1..Len(t.data) :
            \A c \in 1..Len(t.columns) : t.data[i][c] \in {Str(<<"a">>), Str(<<"x">>), Num(1)}}

InitTally ==
    InitWith({MissingFile, GarbageFile} \cup {CsvFile(t) : t \in TallyTables},
             {"abstract"}, {NoPath}, {"names"})

(* ------------------------------ actions --------------------------------- *)

\* An uncaught exception: the traceback is printed and the process ends.
Raise(kind) ==
    /\ pc' = "crashed"
    /\ exit_code' = 1
    /\ err' = [kind |-> kind, message |-> <<>>]

\* Variant of main() without the existence check.
MainNoCheck ==
    /\ pc = "main"
    /\ pc' = "read_csv"
    /\ UNCHANGED <<exit_code, err, input, text_column, output_file, recogniser, df,
                   nlp, idx, extracted, all_species, species_counter,
                   printed_top, model_calls, dirs, writes>>

\* main(): sys.exit(1) when the input path does not exist, else process_csv.
Main ==
    /\ pc = "main"
    /\ IF ~input.exists
       THEN /\ pc' = "exited"
            /\ exit_code' = 1
            /\ err' = [kind |-> "not_found", message |-> <<>>]
       ELSE /\ pc' = "read_csv"
            /\ UNCHANGED <<exit_code, err>>
    /\ UNCHANGED <<input, text_column, output_file, recogniser, df, nlp, idx,
                   extracted, all_species, species_counter, printed_top,
                   model_calls, dirs, writes>>

\* pd.read_csv in its try block: any exception is printed and process_csv
\* returns, so main returns and the process ends with status 0.
ReadCsv ==
    /\ pc = "read_csv"
    /\ IF input.exists /\ input.parsable
       THEN /\ df' = input.table
            /\ pc' = "check_column"
            /\ UNCHANGED <<exit_code, err>>
       ELSE /\ pc' = "returned"
            /\ exit_code' = 0
            /\ err' = [kind |-> "read_error", message |-> <<>>]
            /\ UNCHANGED df
    /\ UNCHANGED <<input, text_column, output_file, recogniser, nlp, idx,
                   extracted, all_species, species_counter, printed_top,
                   model_calls, dirs, writes>>

\* ', '.join(df.columns)
AvailableColumns(columns) ==
    Join([i \in 1..Len(columns) |-> <<columns[i]>>], <<", ">>)

\* Variant of the column check that prints the message and carries on.
CheckColumnNoReturn ==
    /\ pc = "check_column"
    /\ pc' = "setup_taxonerd"
    /\ err' = IF ~HasColumn(df, text_column)
              THEN [kind |-> "missing_column",
                    message |-> AvailableColumns(df.columns)]
              ELSE err
    /\ UNCHANGED <<exit_code, input, text_column, output_file, recogniser, df, nlp,
                   idx, extracted, all_species, species_counter, printed_top,
                   model_calls, dirs, writes>>

\* if text_column not in df.columns: print the columns and return.
CheckColumn ==
    /\ pc = "check_column"
    /\ IF ~HasColumn(df, text_column)
       THEN /\ pc' = "returned"
            /\ exit_code' = 0
            /\ err' = [kind |-> "missing_column",
                       message |-> AvailableColumns(df.columns)]
       ELSE /\ pc' = "setup_taxonerd"
            /\ UNCHANGED <<exit_code, err>>
    /\ UNCHANGED <<input, text_column, output_file, recogniser, df, nlp, idx,
                   extracted, all_species, species_counter, printed_top,
                   model_calls, dirs, writes>>

\* setup_taxonerd(): the model loads, or loading raises and sys.exit(1).
SetupTaxonerd ==
    /\ pc = "setup_taxonerd"
    /\ \E loaded \in BOOLEAN :
          IF loaded
          THEN /\ nlp' = TRUE
               /\ pc' = "init_columns"
               /\ UNCHANGED <<exit_code, err>>
          ELSE /\ pc' = "exited"
               /\ exit_code' = 1
               /\ err' = [kind |-> "model_load", message |-> <<>>]
               /\ UNCHANGED nlp
    /\ UNCHANGED <<input, text_column, output_file, recogniser, df, idx,
                   extracted, all_species, species_counter, printed_top,
                   model_calls, dirs, writes>>

\* all_species = []; df['extracted_species'] = None; df['species_count'] = 0
InitColumns ==
    /\ pc = "init_columns"
    /\ all_species' = <<>>
    /\ df' = SetColumn(SetColumn(df, "extracted_species", None),
                       "species_count", Num(0))
    /\ idx' = 1
    /\ pc' = "loop"
    /\ UNCHANGED <<exit_code, input, text_column, output_file, recogniser, nlp,
                   extracted, species_counter, printed_top, err,
                   model_calls, dirs, writes>>

\* The loop body after extract_species_from_text returned `species`.
StoreRow(species) ==
    /\ df' = SetAt(SetAt(df, idx, "extracted_species",
                         Str(JoinedSpecies(species))),
                   idx, "species_count", Num(Len(species)))
    /\ all_species' = all_species \o species
    /\ extracted' = Append(extracted, [row |-> idx, species |-> species])
    /\ idx' = idx + 1
    /\ UNCHANGED <<pc, exit_code, err>>

\* One iteration of the loop over df.iterrows(), extract_species_from_text
\* included.
ProcessRow ==
    /\ pc = "loop"
    /\ ~LoopDone(idx, Len(df.data))
    /\ LET text == Cell(df, idx, text_column)
       IN  \/ /\ ShortCircuit(text)
              /\ StoreRow(<<>>)
              /\ UNCHANGED model_calls
           \/ /\ ~ShortCircuit(text)
              /\ ~HasStrip(text)
              /\ Raise("attribute_error")
              /\ UNCHANGED <<df, all_species, extracted, idx, model_calls>>
           \/ /\ ~ShortCircuit(text)
              /\ HasStrip(text)
              /\ model_calls' = model_calls + 1
              /\ \E species \in Extractions(recogniser) : StoreRow(species)
           \/ /\ ~ShortCircuit(text)
              /\ HasStrip(text)
              /\ model_calls' = model_calls + 1
              /\ Raise("extraction")
              /\ UNCHANGED <<df, all_species, extracted, idx>>
    /\ UNCHANGED <<input, text_column, output_file, recogniser, nlp,
                   species_counter, printed_top, dirs, writes>>

\* After the loop: species_counter = Counter(all_species) and the console
\* report of the most_common(5) species.
Summarise ==
    /\ pc = "loop"
    /\ LoopDone(idx, Len(df.data))
    /\ species_counter' = Counter(all_species)
    /\ printed_top' =
          IF HasSpecies(Len(Counter(all_species)))
          THEN Take(MostCommon(Counter(all_species)), TopN)
          ELSE <<>>
    /\ pc' = "mkdir"
    /\ UNCHANGED <<exit_code, input, text_column, output_file, recogniser, df, nlp,
                   idx, extracted, all_species, err, model_calls, dirs,
                   writes>>

\* output_file defaults; Path(output_file).parent.mkdir(parents=True, ...)
Mkdir ==
    /\ pc = "mkdir"
    /\ LET resolved == IF output_file = NoPath THEN DefaultOutput ELSE output_file
       IN  /\ output_file' = resolved
           /\ dirs' = dirs \cup Ancestors(resolved)
    /\ pc' = "to_csv"
    /\ UNCHANGED <<exit_code, input, text_column, recogniser, df, nlp, idx,
                   extracted, all_species, species_counter, printed_top,
                   err, model_calls, writes>>

\* DataFrame.to_csv(path) raises OSError when the path's directory is missing.
DirExists(path) == Parent(path) = Cwd \/ Parent(path) \in dirs

\* df.to_csv(output_file, index=False)
ToCsv ==
    /\ pc = "to_csv"
    /\ writes' = Append(writes, [path |-> output_file, content |-> df])
    /\ pc' = "save_summary"
    /\ UNCHANGED <<exit_code, input, text_column, output_file, recogniser, df, nlp,
                   idx, extracted, all_species, species_counter,
                   printed_top, err, model_calls, dirs>>

\* if total_unique_species > 0: write the summary beside the primary output.
SaveSummary ==
    /\ pc = "save_summary"
    /\ IF HasSpecies(Len(species_counter))
       THEN LET summary_file == SummaryPath(output_file)
            IN  IF DirExists(summary_file)
                THEN /\ writes' = Append(writes,
                                         [path |-> summary_file,
                                          content |-> SummaryFrame(species_counter)])
                     /\ pc' = "done"
                     /\ exit_code' = 0
                     /\ UNCHANGED err
                ELSE /\ Raise("os_error")
                     /\ UNCHANGED writes
       ELSE /\ pc' = "done"
            /\ exit_code' = 0
            /\ UNCHANGED <<writes, err>>
    /\ UNCHANGED <<input, text_column, output_file, recogniser, df, nlp, idx,
                   extracted, all_species, species_counter, printed_top,
                   model_calls, dirs>>

Next ==
    \/ Main
    \/ ReadCsv
    \/ CheckColumn
    \/ SetupTaxonerd
    \/ InitColumns
    \/ ProcessRow
    \/ Summarise
    \/ Mkdir
    \/ ToCsv
    \/ SaveSummary

Spec == Init /\ [][Next]_vars

SpecTally == InitTally /\ [][Next]_vars

(* ------------------------- vocabulary of the claims ---------------------- *)

\* The rows whose loop iteration has completed.
Annotated == 1..(idx - 1)

\* The set of entities extract_species_from_text returned for call k.
EntitySet(k) == Range(extracted[k].species)

\* A missing cell, or a text of whitespace only.
AbsentOrWhitespace(v) ==
    \/ v.t \in {"nan", "none"}
    \/ v.t = "str" /\ \A k \in 1..Len(v.s) : v.s[k] = " "

\* s.split(d)
RECURSIVE Split(_, _)
Split(s, d) ==
    IF \A k \in 1..Len(s) : s[k] # d THEN <<s>>
    ELSE LET k == CHOOSE i \in 1..Len(s) :
                     s[i] = d /\ \A j \in 1..(i - 1) : s[j] # d
         IN  <<SubSeq(s, 1, k - 1)>> \o Split(SubSeq(s, k + 1, Len(s)), d)

\* The number of ';'-delimited segments of s that are non-empty once trimmed.
SegmentCount(s) ==
    Cardinality({k \in 1..Len(Split(s, ";")) : Strip(Split(s, ";")[k]) # <<>>})

\* The tally's count of a name; 0 when the tally has no entry for it.
TallyOf(counter, x) ==
    IF \E k \in 1..Len(counter) : counter[k].species = x
    THEN counter[CHOOSE k \in 1..Len(counter) : counter[k].species = x].count
    ELSE 0

\* The number of rows whose extracted entity set contains x.
RowsMentioning(x) ==
    Cardinality({k \in 1..Len(extracted) : x \in EntitySet(k)})

\* The first row whose extracted entity set contains x.
FirstRow(x) ==
    CHOOSE k \in 1..Len(extracted) :
        x \in EntitySet(k) /\ \A j \in 1..(k - 1) : x \notin EntitySet(j)

\* A listing of (species, count) entries is in descending count order, entries
\* of equal count in the order of the rows that first mention them.
Ranked(listing) ==
    \A j, k \in 1..Len(listing) :
        j < k =>
            /\ listing[j].count >= listing[k].count
            /\ listing[j].count = listing[k].count
                  => FirstRow(listing[j].species) <= FirstRow(listing[k].species)

\* The tally has been computed.
Tallied ==
    \/ pc \in {"mkdir", "to_csv", "save_summary", "done"}
    \/ pc = "crashed" /\ err.kind = "os_error"

\* The content of the file at path p: what the last to_csv call on p wrote.
FileContent(p) ==
    writes[CHOOSE k \in 1..Len(writes) :
              writes[k].path = p /\ \A j \in (k + 1)..Len(writes) : writes[j].path # p
          ].content

\* The path with the fixed suffix inserted before the extension of its name.
InsertBeforeExtension(path) ==
    LET name == {k \in 1..Len(path) : \A j \in Slashes(path) : j < k}
        dots == {k \in name : path[k] = "."}
    IN  IF dots = {} THEN Append(path, "_species_summary")
        ELSE LET k == CHOOSE d \in dots : \A e \in dots : e <= d
             IN  SubSeq(path, 1, k - 1) \o <<"_species_summary">>
                    \o SubSeq(path, k, Len(path))

\* The run asked for a column the loaded table does not have.
MissingColumnRun ==
    /\ input.exists
    /\ input.parsable
    /\ text_column \notin Range(input.table.columns)

NothingProcessed ==
    /\ ~nlp
    /\ extracted = <<>>
    /\ model_calls = 0

NothingWritten ==
    /\ dirs = {}
    /\ writes = <<>>

(* -------------------------------- claims --------------------------------- *)

\* C1: in every annotated row, species_count is 0 exactly when
\* extracted_species is the empty string, and a positive species_count equals
\* the number of non-empty trimmed segments of extracted_species split on ';'.
C1_CountMatchesString ==
    \A i \in Annotated :
        LET e == Cell(df, i, "extracted_species").s
            n == Cell(df, i, "species_count").n
        IN  /\ n = 0 <=> e = <<>>
            /\ n > 0 => n = SegmentCount(e)

\* C2: once the tally is computed, it maps every name to the number of rows
\* whose extracted entity set contains it, and holds no other name.
C2_TallyCountsRows ==
    Tallied =>
        /\ \A k \in 1..Len(extracted) :
              \A x \in EntitySet(k) :
                  TallyOf(species_counter, x) = RowsMentioning(x)
        /\ \A k \in 1..Len(species_counter) :
              /\ species_counter[k].count = RowsMentioning(species_counter[k].species)
              /\ species_counter[k].count >= 1
              /\ \A j \in 1..Len(species_counter) :
                    species_counter[j].species = species_counter[k].species => j = k

C2_Witness ==
    /\ pc = "done"
    /\ Len(extracted) = 4
    /\ EntitySet(1) = {A, B}
    /\ EntitySet(2) = {A}
    /\ EntitySet(3) = {}
    /\ EntitySet(4) = {B, C}
    /\ Len(species_counter) = 3
    /\ TallyOf(species_counter, A) = 2
    /\ TallyOf(species_counter, B) = 2
    /\ TallyOf(species_counter, C) = 1

\* C3: the console report is the first five entries of the tally in descending
\* count order, entries of equal count in first-encountered order, the summary
\* table lists all entries in that order, and for the row sets {A,B}, {A}, {},
\* {B,C} the report starts with A, then B.
C3_TopInEncounterOrder ==
    Tallied =>
        /\ Len(printed_top) = Min(TopN, Len(species_counter))
        /\ Ranked(printed_top)
        /\ Ranked(MostCommon(species_counter))
        /\ (/\ Len(extracted) = 4
            /\ EntitySet(1) = {A, B}
            /\ EntitySet(2) = {A}
            /\ EntitySet(3) = {}
            /\ EntitySet(4) = {B, C})
              => /\ printed_top[1].species = A
                 /\ printed_top[2].species = B

\* C4: a loop iteration whose text is absent or whitespace-only records the
\* empty collection for the row and leaves the model call count unchanged.
C4_BlankShortCircuit ==
    [][(/\ pc = "loop"
        /\ idx <= Len(df.data)
        /\ AbsentOrWhitespace(Cell(df, idx, text_column)))
          => /\ model_calls' = model_calls
             /\ extracted' = Append(extracted, [row |-> idx, species |-> <<>>])
             /\ pc' = "loop"]_vars

C4_Witness ==
    /\ text_column = "abstract"
    /\ Len(extracted) = 2
    /\ Cell(input.table, 1, "abstract") = NaN
    /\ Cell(input.table, 2, "abstract") = Str(<<" ">>)
    /\ extracted[1].species = <<>>
    /\ extracted[2].species = <<>>
    /\ model_calls = 0

\* C5: a run whose text column is not a column of the loaded table ends at the
\* column check with a message listing every column, the model not loaded, no
\* row processed, no directory created and no file written.
C5_MissingColumn ==
    (MissingColumnRun /\ pc \notin {"main", "read_csv", "check_column"}) =>
        /\ pc = "returned"
        /\ err.kind = "missing_column"
        /\ \A c \in Range(input.table.columns) : c \in Range(err.message)
        /\ err.message = AvailableColumns(input.table.columns)
        /\ df = input.table
        /\ NothingProcessed
        /\ NothingWritten

C5_Witness ==
    /\ pc = "returned"
    /\ input.table.columns = <<"title", "year">>
    /\ text_column = "abstract"
    /\ err.kind = "missing_column"
    /\ err.message = <<"title", ", ", "year">>
    /\ NothingWritten

\* C6: a completed run has written the annotated table as the primary output;
\* it has written a summary exactly when some row has a species, and when no
\* row has one every row holds extracted_species "" and species_count 0.
C6_SummaryIffSpecies ==
    pc = "done" =>
        LET found == \E i \in 1..Len(df.data) : Cell(df, i, "species_count").n > 0
        IN  /\ Len(writes) >= 1
            /\ writes[1] = [path |-> output_file, content |-> df]
            /\ Len(writes) = 2 <=> found
            /\ Len(writes) <= 2
            /\ ~found =>
                  \A i \in 1..Len(df.data) :
                      /\ Cell(writes[1].content, i, "extracted_species") = Str(<<>>)
                      /\ Cell(writes[1].content, i, "species_count") = Num(0)

C6_Witness ==
    /\ pc = "done"
    /\ Len(df.data) = 2
    /\ model_calls = 2
    /\ \A i \in 1..2 : Cell(df, i, "species_count") = Num(0)
    /\ Len(writes) = 1

\* C7: a run whose input path does not exist exits with a non-zero status at
\* the existence check: no table read, no model loaded, no row processed, no
\* directory created, no file written.
C7_MissingInput ==
    (~input.exists /\ pc # "main") =>
        /\ pc = "exited"
        /\ exit_code > 0
        /\ err.kind = "not_found"
        /\ df = NoFrame
        /\ NothingProcessed
        /\ NothingWritten

C7_Witness ==
    /\ ~input.exists
    /\ pc = "exited"
    /\ exit_code = 1
    /\ NothingWritten

\* C8: the primary output holds the input table's rows in order, every input
\* column with its input value in every row, and its columns are the input's
\* followed by extracted_species and species_count.
C8_InputPassesThrough ==
    Len(writes) >= 1 =>
        LET out == writes[1].content
            in == input.table
        IN  /\ Len(out.data) = Len(in.data)
            /\ out.columns = in.columns \o <<"extracted_species", "species_count">>
            /\ \A i \in 1..Len(in.data) :
                  \A c \in 1..Len(in.columns) :
                      /\ HasColumn(out, in.columns[c])
                      /\ Cell(out, i, in.columns[c]) = in.data[i][c]

\* C9: a run that completes with a non-empty tally has written the
\* summary to the primary output path with the suffix inserted before the
\* extension, a path other than the primary's, so that the primary file holds
\* the annotated table and the summary file the (species, mention_count) table.
C9_SummaryBesidePrimary ==
    (pc = "done" /\ species_counter # <<>>) =>
        /\ Len(writes) = 2
        /\ writes[2].path = InsertBeforeExtension(writes[1].path)
        /\ writes[2].path # writes[1].path
        /\ FileContent(writes[1].path) = df
        /\ FileContent(writes[2].path) = SummaryFrame(species_counter)

\* C10: a directory or a file exists only once every row has been extracted
\* once, in input order; each file is written once, after the last row; a run
\* that ends on a read error, a missing column, a model load failure (exit
\* status non-zero, no row processed) or a failed extraction has written
\* nothing.
C10_WritesAfterLastRow ==
    /\ ~NothingWritten =>
          /\ pc \in {"to_csv", "save_summary", "done", "crashed"}
          /\ Len(extracted) = Len(df.data)
          /\ \A k \in 1..Len(extracted) : extracted[k].row = k
          /\ \A i \in 1..Len(df.data) : Cell(df, i, "extracted_species").t = "str"
    /\ Len(writes) <= 2
    /\ writes # <<>> => pc \in {"save_summary", "done", "crashed"}
    /\ Len(writes) = 2 => pc = "done"
    /\ pc \in {"returned", "exited"} => NothingWritten
    /\ (pc = "exited" /\ err.kind = "model_load") =>
          /\ exit_code > 0
          /\ extracted = <<>>
          /\ model_calls = 0
    /\ (pc = "crashed" /\ err.kind \in {"attribute_error", "extraction"}) =>
          NothingWritten

C10_Witness ==
    /\ pc = "crashed"
    /\ err.kind = "extraction"
    /\ Len(extracted) = 1
    /\ extracted[1].species # <<>>
    /\ NothingWritten

====
